---- MODULE Spec2Model ----
(***************************************************************************)
(* Model of bosh/platform/net/ubuntu_net_manager.go: the ubuntu network    *)
(* manager (SetupDhcp, SetupManualNetworking) and the gratuitous-ARP       *)
(* goroutine it launches.                                                  *)
(*                                                                         *)
(* Strings are TLA+ strings; texts that the code assembles (files, command *)
(* lines, stdout) are sequences of tokens.  An error value is the chain of *)
(* WrapError messages, outermost first; nil is the empty chain.            *)
(***************************************************************************)
EXTENDS Integers, Sequences, FiniteSets, TLC

\* ------------------------------------------------------------------ bounds
\* Longest topology (number of networks) handed to one call.
MaxNets == 2
\* Number of SetupDhcp / SetupManualNetworking calls in one behaviour.
MaxCalls == 2
\* Number of calls in one behaviour in which the goroutines run as well.
MaxArpCalls == 1

\* ------------------------------------------------------------- environment
Nil == <<>>

Ifaces == {"eth0", "eth1"}
\* fs.Glob returns the matches in lexical order.
IfaceOrder == <<"eth0", "eth1">>
NoDev == "<nodev>"
\* the MAC addresses a device plugged as each interface can carry
DevMacs == [i \in Ifaces |-> IF i = "eth0" THEN {"m0"} ELSE {"m1", "m0"}]

InterfacesPath == "/etc/network/interfaces"
ResolvConfPath == "/etc/resolv.conf"
Dhcp3Path == "/etc/dhcp3/dhclient.conf"
DhcpPath == "/etc/dhcp/dhclient.conf"
Paths == {InterfacesPath, ResolvConfPath, Dhcp3Path, DhcpPath}

\* A file that does not exist has no content.
NoFile == <<>>

\* ------------------------------------------------------------ sequences
RECURSIVE Reverse(_)
Reverse(s) == IF s = <<>> THEN <<>> ELSE Reverse(Tail(s)) \o <<Head(s)>>

\* v, evaluated once, handed to F
Bind(v, F(_)) == CHOOSE y \in {F(x) : x \in {v}} : TRUE

SeqsUpTo(S, n) == UNION {[1..k -> S] : k \in 0..n}

\* strings.Join(elems, sep)
RECURSIVE joinFrom(_, _, _)
joinFrom(elems, sep, k) ==
    IF k > Len(elems) THEN <<>>
    ELSE IF k = Len(elems) THEN <<elems[k]>>
    ELSE <<elems[k], sep>> \o joinFrom(elems, sep, k + 1)
Join(elems, sep) == joinFrom(elems, sep, 1)

\* strings.Trim(s, "\n") on a tokenised string
RECURSIVE TrimLeft(_)
TrimLeft(s) == IF s # <<>> /\ Head(s) = "\n" THEN TrimLeft(Tail(s)) ELSE s
Trim(s) == Reverse(TrimLeft(Reverse(TrimLeft(s))))

\* the Go string a tokenised one-token text stands for
Str(s) == IF s = <<>> THEN "" ELSE s[1]

\* Go map read: the zero value for a missing key
MapGet(m, k) == IF k \in DOMAIN m THEN m[k] ELSE ""
MapPut(m, k, v) == [x \in DOMAIN m \cup {k} |-> IF x = k THEN v ELSE m[x]]
EmptyMap == [x \in {} |-> ""]

\* WrapError(err, msg)
WrapError(err, msg) == <<msg>> \o err

\* ------------------------------------------------- external collaborators
\* An event of a call's trace: one filesystem, command or channel operation.
\* res: ConvergeFileContents' written flag; for the others, "no error".
Event(op, args, res) == [op |-> op, args |-> args, res |-> res]

\* boshsys.FileSystem.ConvergeFileContents: write only on difference.
ConvergeFileContents(fs, path, content, fail) ==
    IF fail THEN [written |-> FALSE, err |-> <<"converge failed">>, fs |-> fs]
    ELSE IF fs[path] = content THEN [written |-> FALSE, err |-> Nil, fs |-> fs]
    ELSE [written |-> TRUE, err |-> Nil, fs |-> [fs EXCEPT ![path] = content]]

\* boshsys.FileSystem.WriteFile: unconditional write.
WriteFile(fs, path, content, fail) ==
    IF fail THEN [err |-> <<"write failed">>, fs |-> fs]
    ELSE [err |-> Nil, fs |-> [fs EXCEPT ![path] = content]]

\* boshsys.FileSystem.Glob("/sys/class/net/*")
Glob(devs, fail) ==
    IF fail THEN [paths |-> <<>>, err |-> <<"glob failed">>]
    ELSE Bind(SelectSeq(IfaceOrder, LAMBDA i : devs[i] # NoDev), LAMBDA present :
            [paths |-> [k \in 1..Len(present) |-> <<"/sys/class/net", present[k]>>],
             err |-> Nil])

\* filepath.Join / filepath.Base on a path kept as its components
PathJoin(dir, name) == IF name = "" THEN dir ELSE Append(dir, name)
PathBase(path) == path[Len(path)]

\* boshsys.FileSystem.ReadFileString of /sys/class/net/<dev>/address
ReadFileString(devs, path, readErr) ==
    IF path[2] \in readErr THEN [s |-> <<>>, err |-> <<"read failed">>]
    ELSE [s |-> <<devs[path[2]], "\n">>, err |-> Nil]

\* boshsys.FileSystem.FileExists of /sys/class/net/<dev>
FileExists(devs, path) ==
    IF Len(path) = 1 THEN TRUE ELSE path[2] \in Ifaces /\ devs[path[2]] # NoDev

\* Dotted addresses and their bits (net.ParseIP and IP.String).
AddrTable == [s \in {"0.0", "0.1", "1.0", "1.1"} |->
                 CASE s = "0.0" -> <<0, 0>> [] s = "0.1" -> <<0, 1>>
                   [] s = "1.0" -> <<1, 0>> [] s = "1.1" -> <<1, 1>>]
FormatAddr(bits) == CHOOSE s \in DOMAIN AddrTable : AddrTable[s] = bits

\* boshsys.CalculateNetworkAndBroadcast: AND with the mask, OR with its complement.
CalculateNetworkAndBroadcast(ip, netmask) ==
    IF ip \notin DOMAIN AddrTable \/ netmask \notin DOMAIN AddrTable
    THEN [network |-> "", broadcast |-> "", err |-> <<"invalid address">>]
    ELSE LET a == AddrTable[ip]
             m == AddrTable[netmask]
         IN [network |-> FormatAddr([k \in DOMAIN a |-> a[k] * m[k]]),
             broadcast |-> FormatAddr([k \in DOMAIN a |-> IF m[k] = 1 THEN a[k] ELSE 1]),
             err |-> Nil]

\* boshsettings.Network values handed to the manager.
Network(ip, netmask, gateway, mac, dns, default) ==
    [IP |-> ip, Netmask |-> netmask, Gateway |-> gateway, Mac |-> mac,
     DNS |-> dns, Default |-> default]
EmptyNetwork == Network("", "", "", "", <<>>, {})

\* boshsettings.Networks.DefaultNetworkFor(category): the network flagged for it.
RECURSIVE defaultFrom(_, _, _)
defaultFrom(networks, category, k) ==
    IF k > Len(networks) THEN [network |-> EmptyNetwork, found |-> FALSE]
    ELSE IF category \in networks[k].Default
         THEN [network |-> networks[k], found |-> TRUE]
         ELSE defaultFrom(networks, category, k + 1)
DefaultNetworkFor(networks, category) == defaultFrom(networks, category, 1)

\* cmdRunner.RunCommand: cmdErr is the set of command lines that fail.
RunCommand(argv, cmdErr) == Event("RunCommand", argv, argv \notin cmdErr)

\* --------------------------------------------------------------- the code
\* Mutant: the servers are appended in the order of the settings.
dnsLoopForward(dns, i, dnsServers) == dnsServers \o dns

\* for i := len(DNS) - 1; i >= 0; i-- { append }
RECURSIVE dnsLoop(_, _, _)
dnsLoop(dns, i, dnsServers) ==
    IF i < 1 THEN dnsServers ELSE dnsLoop(dns, i - 1, Append(dnsServers, dns[i]))

getDNSServers(networks) ==
    Bind(DefaultNetworkFor(networks, "dns"), LAMBDA d :
        IF d.found THEN dnsLoop(d.network.DNS, Len(d.network.DNS), <<>>) ELSE <<>>)

\* ubuntuDHCPConfigTemplate executed on the joined server list
ubuntuDHCPConfigTemplate(dnsServersList) ==
    << <<"# Generated by bosh-agent">>,
       <<"option", "rfc3442-classless-static-routes", "code", "121">>,
       <<"send", "host-name">>,
       <<"request", "subnet-mask", "...", "ntp-servers">>,
       <<"prepend", "domain-name-servers">> \o dnsServersList \o <<";">> >>

\* ubuntuResolvConfTemplate: one nameserver line per server
ubuntuResolvConfTemplate(arg) ==
    << <<"# Generated by bosh-agent">> >> \o
    [k \in 1..Len(arg.DNSServers) |-> <<"nameserver", arg.DNSServers[k]>>]

\* one stanza of ubuntuNetworkInterfacesTemplate
interfaceStanza(n) ==
    << <<"auto", n.Interface>>,
       <<"iface", n.Interface, "inet", "static">>,
       <<"address", n.IP>>,
       <<"network", n.NetworkIP>>,
       <<"netmask", n.Netmask>>,
       <<"broadcast", n.Broadcast>> >> \o
    (IF n.HasDefaultGateway THEN << <<"gateway", n.Gateway>> >> ELSE <<>>)

\* {{ range . }} ... {{ end }}
RECURSIVE stanzasFrom(_, _)
stanzasFrom(modifiedNetworks, k) ==
    IF k > Len(modifiedNetworks) THEN <<>>
    ELSE interfaceStanza(modifiedNetworks[k]) \o stanzasFrom(modifiedNetworks, k + 1)

ubuntuNetworkInterfacesTemplate(modifiedNetworks) ==
    << <<"# Generated by bosh-agent">>, <<"auto", "lo">>,
       <<"iface", "lo", "inet", "loopback">> >> \o stanzasFrom(modifiedNetworks, 1)

\* regexp `ifup version 0\.7` on a tokenised stdout: an unanchored search
ifupVersion07Regex == <<"ifup version ", "0", ".", "7">>
MatchString(re, text) ==
    \E k \in 0..(Len(text) - Len(re)) : SubSeq(text, k + 1, k + Len(re)) = re

customNetwork(aNet, interface, network, broadcast, hasDefaultGateway) ==
    [IP |-> aNet.IP, Netmask |-> aNet.Netmask, Gateway |-> aNet.Gateway,
     Mac |-> aNet.Mac, DNS |-> aNet.DNS, Default |-> aNet.Default,
     Interface |-> interface, NetworkIP |-> network, Broadcast |-> broadcast,
     HasDefaultGateway |-> hasDefaultGateway]

\* for _, filePath := range filePaths { ... }, from the k-th path on
RECURSIVE detectLoop(_, _, _, _, _)
detectLoop(filePaths, k, addresses, devs, readErr) ==
    IF k > Len(filePaths) THEN [addresses |-> addresses, err |-> Nil]
    ELSE Bind(ReadFileString(devs, PathJoin(filePaths[k], "address"), readErr), LAMBDA r :
            IF r.err # Nil
            THEN [addresses |-> addresses,
                  err |-> WrapError(r.err, "Reading mac address from file")]
            ELSE detectLoop(filePaths, k + 1,
                            MapPut(addresses, Str(Trim(r.s)), PathBase(filePaths[k])),
                            devs, readErr))

\* Mutant: a failed listing or read is dropped and the map built so far is used.
detectMacAddressesDroppingErrors(devs, in) ==
    Bind(Glob(devs, in.globErr), LAMBDA g :
        IF g.err # Nil THEN [addresses |-> EmptyMap, err |-> Nil]
        ELSE [detectLoop(g.paths, 1, EmptyMap, devs, in.readErr) EXCEPT !.err = Nil])

detectMacAddresses(devs, in) ==
    Bind(Glob(devs, in.globErr), LAMBDA g :
        IF g.err # Nil
        THEN [addresses |-> EmptyMap,
              err |-> WrapError(g.err, "Getting file list from /sys/class/net")]
        ELSE detectLoop(g.paths, 1, EmptyMap, devs, in.readErr))

\* for _, aNet := range networks { ... }, from the k-th network on
RECURSIVE buildNetworks(_, _, _, _)
buildNetworks(networks, k, macAddresses, modifiedNetworks) ==
    IF k > Len(networks) THEN [modifiedNetworks |-> modifiedNetworks, err |-> Nil]
    ELSE Bind(CalculateNetworkAndBroadcast(networks[k].IP, networks[k].Netmask), LAMBDA c :
            IF c.err # Nil
            THEN [modifiedNetworks |-> modifiedNetworks,
                  err |-> WrapError(c.err, "Calculating network and broadcast")]
            ELSE buildNetworks(networks, k + 1, macAddresses,
                     Append(modifiedNetworks,
                            customNetwork(networks[k],
                                          MapGet(macAddresses, networks[k].Mac),
                                          c.network, c.broadcast, TRUE))))

\* what writeNetworkInterfaces returns, with the filesystem it leaves, the
\* operations it performed and the MAC map it built
writeResult(modifiedNetworks, written, err, fs, trace, macAddresses) ==
    [modifiedNetworks |-> modifiedNetworks, written |-> written, err |-> err,
     fs |-> fs, trace |-> trace, macAddresses |-> macAddresses]

writeNetworkInterfaces(networks, devs, fs, in) ==
    Bind(detectMacAddresses(devs, in), LAMBDA d :
      IF d.err # Nil
      THEN writeResult(<<>>, FALSE, WrapError(d.err, "Detecting mac addresses"),
                       fs, <<>>, d.addresses)
      ELSE Bind(buildNetworks(networks, 1, d.addresses, <<>>), LAMBDA b :
        IF b.err # Nil
        THEN writeResult(b.modifiedNetworks, FALSE, b.err, fs, <<>>, d.addresses)
        ELSE IF "network-interfaces" \in in.renderErr
        THEN writeResult(b.modifiedNetworks, FALSE,
                         WrapError(<<"execute failed">>, "Generating config from template"),
                         fs, <<>>, d.addresses)
        ELSE Bind(ConvergeFileContents(fs, InterfacesPath,
                      ubuntuNetworkInterfacesTemplate(b.modifiedNetworks),
                      in.convergeErr), LAMBDA c :
          IF c.err # Nil
          THEN writeResult(b.modifiedNetworks, FALSE,
                           WrapError(c.err, "Writing to /etc/network/interfaces"), fs,
                           <<Event("ConvergeFileContents", <<InterfacesPath>>, FALSE)>>,
                           d.addresses)
          ELSE writeResult(b.modifiedNetworks, c.written, Nil, c.fs,
                           <<Event("ConvergeFileContents", <<InterfacesPath>>, c.written)>>,
                           d.addresses))))

\* Mutant: a failed stop or start ends the bounce.
RECURSIVE restartFromUntilFailure(_, _, _)
restartFromUntilFailure(networks, k, cmdErr) ==
    IF k > Len(networks) THEN <<>>
    ELSE Bind(RunCommand(<<"service", "network-interface", "stop", "INTERFACE=",
                           networks[k].Interface>>, cmdErr), LAMBDA stop :
           IF ~stop.res THEN <<stop>>
           ELSE Bind(RunCommand(<<"service", "network-interface", "start", "INTERFACE=",
                                  networks[k].Interface>>, cmdErr), LAMBDA start :
                  IF ~start.res THEN <<stop, start>>
                  ELSE <<stop, start>> \o restartFromUntilFailure(networks, k + 1, cmdErr)))

\* for _, network := range networks { stop; start }, from the k-th network on
RECURSIVE restartFrom(_, _, _)
restartFrom(networks, k, cmdErr) ==
    IF k > Len(networks) THEN <<>>
    ELSE << RunCommand(<<"service", "network-interface", "stop", "INTERFACE=",
                         networks[k].Interface>>, cmdErr),
            RunCommand(<<"service", "network-interface", "start", "INTERFACE=",
                         networks[k].Interface>>, cmdErr) >>
         \o restartFrom(networks, k + 1, cmdErr)

restartNetworkingInterfaces(networks, cmdErr) == restartFrom(networks, 1, cmdErr)

\* Mutant: the error of WriteFile is logged and dropped.
writeResolvConfDroppingError(networks, fs, in) ==
    Bind(getDNSServers(networks), LAMBDA dnsServers :
      IF "resolv-conf" \in in.renderErr
      THEN [err |-> WrapError(<<"execute failed">>, "Generating config from template"),
            fs |-> fs, trace |-> <<>>]
      ELSE Bind(WriteFile(fs, ResolvConfPath,
                          ubuntuResolvConfTemplate([DNSServers |-> dnsServers]),
                          in.writeErr), LAMBDA w :
        [err |-> Nil, fs |-> w.fs,
         trace |-> <<Event("WriteFile", <<ResolvConfPath>>, w.err = Nil)>>]))

\* Mutant: resolv.conf is written through the convergent write.
writeResolvConfConverging(networks, fs, in) ==
    Bind(getDNSServers(networks), LAMBDA dnsServers :
      IF "resolv-conf" \in in.renderErr
      THEN [err |-> WrapError(<<"execute failed">>, "Generating config from template"),
            fs |-> fs, trace |-> <<>>]
      ELSE Bind(ConvergeFileContents(fs, ResolvConfPath,
                          ubuntuResolvConfTemplate([DNSServers |-> dnsServers]),
                          in.writeErr), LAMBDA w :
        IF w.err # Nil
        THEN [err |-> WrapError(w.err, "Writing to /etc/resolv.conf"), fs |-> fs,
              trace |-> <<Event("ConvergeFileContents", <<ResolvConfPath>>, FALSE)>>]
        ELSE [err |-> Nil, fs |-> w.fs,
              trace |-> IF w.written
                        THEN <<Event("WriteFile", <<ResolvConfPath>>, TRUE)>>
                        ELSE <<>>]))

writeResolvConf(networks, fs, in) ==
    Bind(getDNSServers(networks), LAMBDA dnsServers :
      IF "resolv-conf" \in in.renderErr
      THEN [err |-> WrapError(<<"execute failed">>, "Generating config from template"),
            fs |-> fs, trace |-> <<>>]
      ELSE Bind(WriteFile(fs, ResolvConfPath,
                          ubuntuResolvConfTemplate([DNSServers |-> dnsServers]),
                          in.writeErr), LAMBDA w :
        IF w.err # Nil
        THEN [err |-> WrapError(w.err, "Writing to /etc/resolv.conf"), fs |-> fs,
              trace |-> <<Event("WriteFile", <<ResolvConfPath>>, FALSE)>>]
        ELSE [err |-> Nil, fs |-> w.fs,
              trace |-> <<Event("WriteFile", <<ResolvConfPath>>, TRUE)>>]))

\* Mutant: the interfaces are bounced whether or not the file was written.
restartAlways(w, in) == restartNetworkingInterfaces(w.modifiedNetworks, in.cmdErr)

\* if written { net.restartNetworkingInterfaces(modifiedNetworks) }
restartIfWritten(w, in) ==
    IF w.written THEN restartNetworkingInterfaces(w.modifiedNetworks, in.cmdErr) ELSE <<>>

\* Mutant: the goroutine is started before resolv.conf is written.
launchBeforeResolvConf(interfaces, restart, resolv) ==
    interfaces \o restart \o <<Event("go", <<"gratuitiousArp">>, TRUE)>> \o resolv

\* the operations of a successful call, in the order of its statements
launchAfterResolvConf(interfaces, restart, resolv) ==
    interfaces \o restart \o resolv \o <<Event("go", <<"gratuitiousArp">>, TRUE)>>

\* What one SetupManualNetworking call returns and does: its error, the
\* filesystem it leaves, the operations it performed in order, and whether it
\* started the goroutine (on modifiedNetworks).
manualResult(err, fs, trace, launched, w) ==
    [err |-> err, fs |-> fs, trace |-> trace, launched |-> launched,
     modifiedNetworks |-> w.modifiedNetworks, macAddresses |-> w.macAddresses]

SetupManualNetworking(networks, errCh, devs, fs, in) ==
    Bind(writeNetworkInterfaces(networks, devs, fs, in), LAMBDA w :
      IF w.err # Nil
      THEN manualResult(WrapError(w.err, "Writing network interfaces"), w.fs, w.trace,
                        FALSE, w)
      ELSE Bind(restartIfWritten(w, in), LAMBDA restart :
        Bind(writeResolvConf(networks, w.fs, in), LAMBDA r :
          IF r.err # Nil
          THEN manualResult(WrapError(r.err, "Writing resolv.conf"), r.fs,
                            w.trace \o restart \o r.trace, FALSE, w)
          ELSE manualResult(Nil, r.fs, launchAfterResolvConf(w.trace, restart, r.trace),
                            TRUE, w))))

\* Mutant: the two paths are exchanged.
dhclientConfigFileExchanged(in) == IF in.dhclient3 THEN DhcpPath ELSE Dhcp3Path

\* CommandExists("dhclient3") chooses the path
dhclientConfigFile(in) == IF in.dhclient3 THEN Dhcp3Path ELSE DhcpPath

\* Mutant: the output of the probe is not looked at.
restartNetworkArgumentsUnprobed(in) ==
    [trace |-> <<RunCommand(<<"ifup", "--version">>, in.cmdErr)>>,
     args |-> <<"-a", "--exclude=lo">>]

\* Mutant: the two flag lists are exchanged.
restartNetworkArgumentsExchanged(in) ==
    [trace |-> <<RunCommand(<<"ifup", "--version">>, in.cmdErr)>>,
     args |-> IF MatchString(ifupVersion07Regex, in.stdout)
              THEN <<"-a", "--exclude=lo">>
              ELSE <<"-a", "--no-loopback">>]

restartNetworkArguments(in) ==
    [trace |-> <<RunCommand(<<"ifup", "--version">>, in.cmdErr)>>,
     args |-> IF MatchString(ifupVersion07Regex, in.stdout)
              THEN <<"-a", "--no-loopback">>
              ELSE <<"-a", "--exclude=lo">>]

\* Mutant: ifup is run only when ifdown succeeded.
dhcpBounceUpAfterDown(in, fs, written) ==
    Bind(restartNetworkArguments(in), LAMBDA a :
      Bind(RunCommand(<<"ifdown">> \o a.args, in.cmdErr), LAMBDA down :
        [err |-> Nil, fs |-> fs,
         trace |-> <<written>> \o a.trace \o <<down>>
                   \o (IF down.res THEN <<RunCommand(<<"ifup">> \o a.args, in.cmdErr)>>
                                   ELSE <<>>)]))

\* Mutant: a failed ifdown or ifup is returned to the caller.
dhcpBouncePropagating(in, fs, written) ==
    Bind(restartNetworkArguments(in), LAMBDA a :
      Bind(<< RunCommand(<<"ifdown">> \o a.args, in.cmdErr),
              RunCommand(<<"ifup">> \o a.args, in.cmdErr) >>, LAMBDA run :
        [err |-> IF run[1].res /\ run[2].res THEN Nil ELSE <<"Running ifdown/ifup">>,
         fs |-> fs, trace |-> <<written>> \o a.trace \o run]))

\* if written { args := restartNetworkArguments(); ifdown; ifup }; return nil
dhcpBounce(in, fs, written) ==
    Bind(restartNetworkArguments(in), LAMBDA a :
      [err |-> Nil, fs |-> fs,
       trace |-> <<written>> \o a.trace
                 \o << RunCommand(<<"ifdown">> \o a.args, in.cmdErr),
                       RunCommand(<<"ifup">> \o a.args, in.cmdErr) >>])

\* Mutant: the stack is bounced whether or not the file was written.
bounceAlways(c, in, file) ==
    dhcpBounce(in, c.fs, Event("ConvergeFileContents", <<file>>, c.written))

bounceIfWritten(c, in, file) ==
    IF c.written
    THEN dhcpBounce(in, c.fs, Event("ConvergeFileContents", <<file>>, TRUE))
    ELSE [err |-> Nil, fs |-> c.fs,
          trace |-> <<Event("ConvergeFileContents", <<file>>, FALSE)>>]

SetupDhcp(networks, fs, in) ==
    Bind(Join(getDNSServers(networks), ", "), LAMBDA dnsServersList :
      IF "dhcp-config" \in in.renderErr
      THEN [err |-> WrapError(<<"execute failed">>, "Generating config from template"),
            fs |-> fs, trace |-> <<>>]
      ELSE Bind(ConvergeFileContents(fs, dhclientConfigFile(in),
                    ubuntuDHCPConfigTemplate(dnsServersList), in.convergeErr), LAMBDA c :
        IF c.err # Nil
        THEN [err |-> WrapError(c.err, "Writing to dhclient.conf"), fs |-> fs,
              trace |-> <<Event("ConvergeFileContents", <<dhclientConfigFile(in)>>, FALSE)>>]
        ELSE bounceIfWritten(c, in, dhclientConfigFile(in))))

\* ---------------------------------------------------------------- inputs
NetA == Network("1.1", "1.0", "1.0", "m0", <<"a", "b", "c">>, {"dns", "gateway"})
NetB == Network("0.1", "1.0", "", "m1", <<"d">>, {})
NetD == Network("bad", "1.0", "", "m0", <<>>, {})
NetPool == {NetA, NetB, NetD}
\* Networks is keyed by network name: a topology holds each network once.
Topologies == {t \in SeqsUpTo(NetPool, MaxNets) :
                  \A a, b \in DOMAIN t : a # b => t[a] # t[b]}

NoChan == "nil"
Chans == {NoChan, "errCh"}

ServiceCmds(verbs, ifaces) ==
    {<<"service", "network-interface", v, "INTERFACE=", i>> : v \in verbs, i \in ifaces}

NoFault == [globErr |-> FALSE, readErr |-> {}, renderErr |-> {}, convergeErr |-> FALSE,
            writeErr |-> FALSE, cmdErr |-> {}, dhclient3 |-> FALSE, stdout |-> <<>>]

\* What the environment does to one SetupManualNetworking call, with the
\* channel the caller passes: one fatal fault, or failing service commands.
ManualIns ==
    {[errCh |-> "errCh", in |-> f] :
        f \in {[NoFault EXCEPT !.globErr = TRUE], [NoFault EXCEPT !.convergeErr = TRUE],
               [NoFault EXCEPT !.writeErr = TRUE],
               [NoFault EXCEPT !.writeErr = TRUE,
                               !.cmdErr = ServiceCmds({"stop", "start"}, Ifaces \cup {""})]}
            \cup {[NoFault EXCEPT !.readErr = {i}] : i \in Ifaces}
            \cup {[NoFault EXCEPT !.renderErr = {t}] :
                     t \in {"network-interfaces", "resolv-conf"}}}
    \cup {[errCh |-> c, in |-> [NoFault EXCEPT !.cmdErr = ServiceCmds(v, Ifaces \cup {""})]] :
             c \in Chans, v \in {{}, {"stop"}, {"stop", "start"}}}

Stdouts == { <<>>,
             <<"ifup version ", "0", ".", "7">>,
             <<"ifup version ", "0", ".", "7", ".", "4", "\n">>,
             <<"ifup version ", "0", ".", "8">>,
             <<"ifup version ", "0", "x", "7">> }

DhcpCmds(names) ==
    {<<"ifup", "--version">> : n \in names \cap {"probe"}}
    \cup {<<n>> \o a : n \in names \cap {"ifdown", "ifup"},
                      a \in {<<"-a", "--no-loopback">>, <<"-a", "--exclude=lo">>}}

\* What the environment does to one SetupDhcp call.
DhcpIns ==
    {[NoFault EXCEPT !.renderErr = {"dhcp-config"}], [NoFault EXCEPT !.convergeErr = TRUE]}
    \cup {[NoFault EXCEPT !.stdout = o, !.dhclient3 = d] : o \in Stdouts, d \in BOOLEAN}
    \cup {[NoFault EXCEPT !.cmdErr = DhcpCmds(c), !.stdout = o] :
             c \in {{"probe"}, {"ifdown"}, {"probe", "ifdown", "ifup"}},
             o \in {<<>>, <<"ifup version ", "0", ".", "7">>}}

\* ----------------------------------------------------------------- state
VARIABLES
    devices,     \* /sys/class/net: interface -> MAC address, or NoDev
    fs,          \* the files the manager writes: path -> content
    last,        \* the call that has just returned: inputs, devices, result, operations
    prev,        \* what the caller keeps of the call before: op, error, networks
    devChanged,  \* a device appeared or vanished since the latest call
    arps,        \* the gratuitiousArp goroutines launched so far
    ncalls,      \* calls made so far
    receiver     \* the caller is waiting in a receive on its channel

vars == <<devices, fs, last, prev, devChanged, arps, ncalls, receiver>>

NoCall == [op |-> "none", networks |-> <<>>, errCh |-> NoChan, in |-> NoFault,
           err |-> Nil, trace |-> <<>>, launched |-> FALSE, modifiedNetworks |-> <<>>,
           macAddresses |-> EmptyMap, repeat |-> FALSE,
           devs |-> [i \in Ifaces |-> NoDev]]

NoPrev == [op |-> "none", ok |-> FALSE, networks |-> <<>>]

Init ==
    /\ devices \in [Ifaces -> UNION {DevMacs[i] : i \in Ifaces} \cup {NoDev}]
    /\ \A i \in Ifaces : devices[i] \in DevMacs[i] \cup {NoDev}
    /\ fs = [p \in Paths |-> NoFile]
    /\ last = NoCall
    /\ prev = NoPrev
    /\ devChanged = FALSE
    /\ arps = <<>>
    /\ ncalls = 0
    /\ receiver = FALSE

\* repeat: the call before was the same operation on the same networks, it
\* succeeded, and no device changed since.
History(op, networks, errCh, in) ==
    [NoCall EXCEPT !.op = op, !.networks = networks, !.errCh = errCh, !.in = in,
                   !.devs = devices,
                   !.repeat = (prev.op = op /\ prev.ok /\ prev.networks = networks
                               /\ ~devChanged)]

\* ------------------------------------------------------------ goroutine
Rounds == 6

\* Mutant: the channel is sent on without the nil check.
afterLoopsUnchecked(errCh) == "send"

\* where gratuitiousArp stands once both loops are over
afterLoops(errCh) == IF errCh # NoChan THEN "send" ELSE "done"

\* Mutant: gratuitiousArp is called, not started with go: when the call
\* returns both loops have run.
RECURSIVE arpingsInline(_, _)
arpingsInline(networks, p) ==
    IF p > Rounds * Len(networks) THEN <<>>
    ELSE <<Event("RunCommand", <<"arping", "-c", "1", "-U", "-I",
                                 networks[((p - 1) % Len(networks)) + 1].Interface,
                                 networks[((p - 1) % Len(networks)) + 1].IP>>, TRUE)>>
         \o arpingsInline(networks, p + 1)
gratuitiousArpInline(networks, errCh, call) ==
    [networks |-> networks, errCh |-> errCh, call |-> call,
     i |-> Rounds, j |-> 1, trace |-> arpingsInline(networks, 1),
     pc |-> afterLoops(errCh)]

\* go net.gratuitiousArp(modifiedNetworks, errCh), launched by the call-th call
gratuitiousArp(networks, errCh, call) ==
    [networks |-> networks, errCh |-> errCh, call |-> call,
     i |-> 0, j |-> 1, trace |-> <<>>,
     pc |-> IF networks = <<>> THEN afterLoops(errCh) ELSE "poll"]

\* Mutant: the device is looked for once (an if in place of the for) and
\* the arping follows whether or not it is there.
ArpPollOnce(k) ==
    /\ k \in DOMAIN arps
    /\ arps[k].pc = "poll"
    /\ arps' = [arps EXCEPT ![k].pc = "arping"]
    /\ UNCHANGED <<devices, fs, last, prev, devChanged, ncalls, receiver>>

\* for !FileExists(...) { time.Sleep(100ms) }
ArpPoll(k) ==
    /\ k \in DOMAIN arps
    /\ arps[k].pc = "poll"
    /\ \/ /\ FileExists(devices, PathJoin(<<"/sys/class/net">>,
                                          arps[k].networks[arps[k].j].Interface))
          /\ arps' = [arps EXCEPT ![k].pc = "arping"]
          /\ UNCHANGED <<devices, fs, last, prev, devChanged, ncalls, receiver>>
       \/ /\ ~FileExists(devices, PathJoin(<<"/sys/class/net">>,
                                           arps[k].networks[arps[k].j].Interface))
          /\ UNCHANGED vars

\* Mutant: the loops are exchanged: each network in turn, Rounds times.
arpAdvanceNetworkFirst(a) ==
    IF a.i + 1 < Rounds THEN [a EXCEPT !.i = a.i + 1, !.pc = "poll"]
    ELSE IF a.j < Len(a.networks) THEN [a EXCEPT !.i = 0, !.j = a.j + 1, !.pc = "poll"]
    ELSE [a EXCEPT !.i = a.i + 1, !.j = 1, !.pc = afterLoops(a.errCh)]

\* the position after one visit of the inner loop
arpAdvance(a) ==
    IF a.j < Len(a.networks) THEN [a EXCEPT !.j = a.j + 1, !.pc = "poll"]
    ELSE IF a.i + 1 < Rounds THEN [a EXCEPT !.i = a.i + 1, !.j = 1, !.pc = "poll"]
    ELSE [a EXCEPT !.i = a.i + 1, !.j = 1, !.pc = afterLoops(a.errCh)]

\* RunCommand("arping", ...): its error is logged and dropped; then the sleep
ArpArping(k) ==
    /\ k \in DOMAIN arps
    /\ arps[k].pc = "arping"
    /\ \E failed \in BOOLEAN :
          arps' = [arps EXCEPT ![k] = arpAdvance(
                     [arps[k] EXCEPT !.trace = Append(@,
                         Event("RunCommand", <<"arping", "-c", "1", "-U", "-I",
                                               arps[k].networks[arps[k].j].Interface,
                                               arps[k].networks[arps[k].j].IP>>, TRUE))])]
    /\ UNCHANGED <<devices, fs, last, prev, devChanged, ncalls, receiver>>

\* errCh <- nil: the send completes when the caller receives; a send on a
\* nil channel never does
ArpSend(k) ==
    /\ k \in DOMAIN arps
    /\ arps[k].pc = "send"
    /\ arps[k].errCh # NoChan
    /\ receiver
    /\ arps' = [arps EXCEPT ![k].pc = "done",
                            ![k].trace = Append(@, Event("send", <<arps[k].errCh, "nil">>, TRUE))]
    /\ receiver' = FALSE
    /\ UNCHANGED <<devices, fs, last, prev, devChanged, ncalls>>

\* the caller starts to wait for the notification: <-errCh
StartReceive ==
    /\ ~receiver
    /\ receiver' = TRUE
    /\ UNCHANGED <<devices, fs, last, prev, devChanged, arps, ncalls>>

\* the caller gives up waiting
StopReceive ==
    /\ receiver
    /\ receiver' = FALSE
    /\ UNCHANGED <<devices, fs, last, prev, devChanged, arps, ncalls>>

\* Mutant: the new goroutine takes the place of those started before.
goStatementReplacing(running, g) == <<g>>

\* go f(): one more goroutine; those running are left alone
goStatement(running, g) == Append(running, g)

\* -------------------------------------------------------------- actions
\* One call of SetupManualNetworking by the agent, which calls one at a time.
CallSetupManualNetworking(topologies, ins, budget) ==
    /\ ncalls < budget
    /\ last.op = "none"
    /\ \E networks \in topologies, x \in ins :
          \E r \in {SetupManualNetworking(networks, x.errCh, devices, fs, x.in)} :
             /\ fs' = r.fs
             /\ last' = [History("SetupManualNetworking", networks, x.errCh, x.in)
                           EXCEPT !.err = r.err, !.trace = r.trace,
                                  !.launched = r.launched,
                                  !.modifiedNetworks = r.modifiedNetworks,
                                  !.macAddresses = r.macAddresses]
             /\ arps' = IF r.launched
                        THEN goStatement(arps, gratuitiousArp(r.modifiedNetworks, x.errCh,
                                                              ncalls + 1))
                        ELSE arps
    /\ devChanged' = FALSE
    /\ ncalls' = ncalls + 1
    /\ UNCHANGED <<devices, prev, receiver>>

CallSetupDhcp(topologies, ins, budget) ==
    /\ ncalls < budget
    /\ last.op = "none"
    /\ \E networks \in topologies, in \in ins :
          \E r \in {SetupDhcp(networks, fs, in)} :
             /\ fs' = r.fs
             /\ last' = [History("SetupDhcp", networks, NoChan, in)
                           EXCEPT !.err = r.err, !.trace = r.trace]
    /\ devChanged' = FALSE
    /\ ncalls' = ncalls + 1
    /\ UNCHANGED <<devices, prev, arps, receiver>>

\* The caller takes the result; the call's record is dropped.
Return ==
    /\ last.op # "none"
    /\ prev' = [op |-> last.op, ok |-> last.err = Nil, networks |-> last.networks]
    /\ last' = NoCall
    /\ UNCHANGED <<devices, fs, devChanged, arps, ncalls, receiver>>

\* a device appears, vanishes or is replaced
HotPlug ==
    /\ \E i \in Ifaces : \E m \in DevMacs[i] \cup {NoDev} :
          /\ m # devices[i]
          /\ devices' = [devices EXCEPT ![i] = m]
    /\ devChanged' = TRUE
    /\ UNCHANGED <<fs, last, prev, arps, ncalls, receiver>>

\* The two operations with every fault of the environment; the goroutines a
\* call launches are recorded and left at their start: they write no file and
\* no device, so the calls behave the same whatever the goroutines do.
NextCalls ==
    \/ CallSetupManualNetworking(Topologies, ManualIns, MaxCalls)
    \/ CallSetupDhcp(Topologies, DhcpIns, MaxCalls)
    \/ Return
    \/ (ncalls < MaxCalls /\ HotPlug)

SpecCalls == Init /\ [][NextCalls]_vars

\* The operations together with the goroutines they launch.
ArpIns ==
    {x \in ManualIns : x.in.cmdErr = {} \/ x.in.writeErr}

Next ==
    \/ CallSetupManualNetworking(Topologies, ArpIns, MaxArpCalls)
    \/ CallSetupDhcp(Topologies, {NoFault}, MaxArpCalls)
    \/ Return
    \/ HotPlug
    \/ \E k \in 1..MaxArpCalls : ArpPoll(k)
    \/ \E k \in 1..MaxArpCalls : ArpArping(k)
    \/ \E k \in 1..MaxArpCalls : ArpSend(k)
    \/ StartReceive
    \/ StopReceive

Spec == Init /\ [][Next]_vars

\* The Go scheduler runs every goroutine that can take a step.
FairSpec ==
    /\ Spec
    /\ \A k \in 1..MaxArpCalls :
          WF_vars(ArpPoll(k)) /\ WF_vars(ArpArping(k)) /\ WF_vars(ArpSend(k))

\* Two calls of SetupManualNetworking, the second made while the goroutine of
\* the first may still run, on the same or on another list of networks.
ConcurrentTopologies == {<<NetA>>, <<NetB, NetA>>}
ConcurrentIns == {[errCh |-> "errCh", in |-> NoFault]}

NextConcurrent ==
    \/ CallSetupManualNetworking(ConcurrentTopologies, ConcurrentIns, MaxCalls)
    \/ Return
    \/ (ncalls < MaxCalls /\ HotPlug)
    \/ \E k \in 1..MaxCalls : ArpPoll(k)
    \/ \E k \in 1..MaxCalls : ArpArping(k)
    \/ \E k \in 1..MaxCalls : ArpSend(k)
    \/ StartReceive

SpecConcurrent == Init /\ [][NextConcurrent]_vars

\* --------------------------------------------------------------- claims
Manual == last.op = "SetupManualNetworking"
Dhcp == last.op = "SetupDhcp"

\* the events of a trace that satisfy P, in order
Events(trace, P(_)) == SelectSeq(trace, P)

\* a file was written: a convergent write that changed it, or a plain write
IsWrite(e) == (e.op = "ConvergeFileContents" /\ e.res) \/ e.op = "WriteFile"
IsCommand(e) == e.op = "RunCommand"
IsService(e) == e.op = "RunCommand" /\ e.args[1] = "service"
IsLaunch(e) == e.op = "go"

\* the MAC addresses of the devices present when the latest call ran
PresentMacs == {last.devs[i] : i \in {j \in Ifaces : last.devs[j] # NoDev}}
UnknownMac == \E k \in DOMAIN last.networks : last.networks[k].Mac \notin PresentMacs

\* C1: a SetupManualNetworking call given a network whose MAC address belongs
\* to no device of /sys/class/net returns an error and writes no file.
C1_UnknownMacIsAnError ==
    (Manual /\ UnknownMac) =>
        (last.err # Nil /\ Events(last.trace, IsWrite) = <<>>)

\* C2: a SetupManualNetworking call that repeats the call before it (same
\* networks, that call succeeded, no device changed in between) runs no
\* service stop and no service start.
C2_RepeatedCallRestartsNothing ==
    (Manual /\ last.repeat) => Events(last.trace, IsService) = <<>>

\* a repeated successful call on two networks, both resolved to a device
C2_Witness ==
    /\ Manual /\ last.repeat /\ last.err = Nil
    /\ Len(last.modifiedNetworks) = 2
    /\ \A k \in DOMAIN last.modifiedNetworks : last.modifiedNetworks[k].Interface # ""

\* the arping of one network, and the completion notification
ArpingOf(n) ==
    Event("RunCommand", <<"arping", "-c", "1", "-U", "-I", n.Interface, n.IP>>, TRUE)
Notification(a) == Event("send", <<a.errCh, "nil">>, TRUE)

\* 6 rounds over the networks in their order
SixRounds(nets) ==
    [p \in 1..(6 * Len(nets)) |-> ArpingOf(nets[((p - 1) % Len(nets)) + 1])]
WholeRun(a) ==
    SixRounds(a.networks) \o (IF a.errCh # NoChan THEN <<Notification(a)>> ELSE <<>>)

\* C3: what a goroutine has done is always a prefix of: 6 rounds of one
\* arping per network, in the order of the call's networks, then the single
\* notification; a goroutine that is done has done all of it, and one that
\* waits to notify has issued all 6*N arpings.
C3_SixRoundsThenOneNotification ==
    \A k \in DOMAIN arps :
        /\ Len(arps[k].trace) <= Len(WholeRun(arps[k]))
        /\ arps[k].trace = SubSeq(WholeRun(arps[k]), 1, Len(arps[k].trace))
        /\ arps[k].pc = "done" => arps[k].trace = WholeRun(arps[k])
        /\ arps[k].pc = "send" => arps[k].trace = SixRounds(arps[k].networks)
        /\ (Manual /\ arps[k].call = ncalls) =>
               /\ Len(arps[k].networks) = Len(last.networks)
               /\ \A p \in DOMAIN last.networks :
                     arps[k].networks[p].IP = last.networks[p].IP

\* a goroutine of two networks with devices has notified the caller
C3_Witness ==
    \E k \in DOMAIN arps :
        /\ arps[k].pc = "done" /\ arps[k].errCh # NoChan
        /\ Len(arps[k].networks) = 2
        /\ \A p \in 1..2 : arps[k].networks[p].Interface # ""
        /\ Len(arps[k].trace) = 13

\* the step of SetupManualNetworking an operation belongs to
Step(e) == CASE e.op = "ConvergeFileContents" -> 1
             [] IsService(e) -> 2
             [] e.op = "WriteFile" -> 3
             [] OTHER -> 4

\* C4: in one SetupManualNetworking call the convergent write comes first,
\* then every service stop/start, then the write of resolv.conf, then the
\* launch of the goroutine, each at most once but the service commands; the
\* goroutine of a call exists only once all of these are done.
C4_StepsInOrder ==
    Manual =>
        /\ \A p, q \in DOMAIN last.trace :
              p < q => /\ Step(last.trace[p]) <= Step(last.trace[q])
                       /\ Step(last.trace[p]) # 2 =>
                              Step(last.trace[p]) < Step(last.trace[q])
        /\ \A k \in DOMAIN arps : arps[k].call = ncalls =>
              /\ last.trace # <<>>
              /\ IsLaunch(last.trace[Len(last.trace)])
              /\ \E p \in DOMAIN last.trace :
                    last.trace[p].op = "WriteFile" /\ last.trace[p].res

\* a call that bounced two interfaces and launched its goroutine
C4_Witness ==
    /\ Manual /\ last.launched
    /\ Len(Events(last.trace, IsService)) = 4
    /\ \E k \in DOMAIN arps : arps[k].call = ncalls

\* C5: SetupDhcp returns an error exactly when the rendering of the dhclient
\* config or its convergent write fails; failing commands never make it fail.
C5_DhcpFailsOnlyOnFileErrors ==
    Dhcp => (last.err # Nil <=>
                ("dhcp-config" \in last.in.renderErr \/ last.in.convergeErr))

\* the probe, ifdown and ifup all failed and the call returned nil
C5_Witness ==
    /\ Dhcp /\ last.err = Nil
    /\ Len(Events(last.trace, IsCommand)) = 3
    /\ \A p \in DOMAIN last.trace : IsCommand(last.trace[p]) => ~last.trace[p].res

IsIfdown(e) == IsCommand(e) /\ e.args[1] = "ifdown"
IsIfup(e) == IsCommand(e) /\ e.args[1] = "ifup" /\ e.args[2] # "--version"
IsProbe(e) == IsCommand(e) /\ e.args = <<"ifup", "--version">>

\* C6: SetupDhcp runs ifdown once and ifup once when the convergent write
\* reported a change, and no command at all (no probe either) when it reported
\* none or failed.
C6_BounceIffWritten ==
    Dhcp =>
        IF last.trace # <<>> /\ last.trace[1].res
        THEN /\ Len(Events(last.trace, IsIfdown)) = 1
             /\ Len(Events(last.trace, IsIfup)) = 1
             /\ Len(Events(last.trace, IsCommand)) = 3
        ELSE Events(last.trace, IsCommand) = <<>>

\* a second SetupDhcp call on the same networks found the file unchanged
C6_Witness ==
    /\ Dhcp /\ last.repeat /\ last.err = Nil
    /\ last.trace = <<Event("ConvergeFileContents", <<DhcpPath>>, FALSE)>>

\* the listing, the read of a listed device's address, or the arithmetic on
\* some network's addresses fails in the latest call
DetectFault ==
    \/ last.in.globErr
    \/ \E i \in last.in.readErr : last.devs[i] # NoDev
    \/ \E k \in DOMAIN last.networks :
          \/ last.networks[k].IP \notin DOMAIN AddrTable
          \/ last.networks[k].Netmask \notin DOMAIN AddrTable

\* C7: a SetupManualNetworking call in which the listing of /sys/class/net, a
\* device's address file or the network/broadcast computation fails returns an
\* error having done nothing (no write, no command, no goroutine); and a
\* goroutine, the only sender on a call's channel, exists only for a call that
\* returned nil.
C7_DetectionFailureAppliesNothing ==
    /\ (Manual /\ DetectFault) =>
          /\ last.err # Nil
          /\ last.trace = <<>>
          /\ ~last.launched
          /\ \A k \in DOMAIN arps : arps[k].call # ncalls
    /\ \A k \in DOMAIN arps : arps[k].call = ncalls =>
          IF last.op # "none" THEN last.err = Nil ELSE prev.ok

\* the read of a present device's address failed in a call given a channel
C7_Witness ==
    /\ Manual /\ last.errCh # NoChan /\ last.networks # <<>>
    /\ \E i \in last.in.readErr : last.devs[i] # NoDev
    /\ last.err # Nil

IsGatewayLine(line) == line # <<>> /\ line[1] = "gateway"

\* C8: HasDefaultGateway holds exactly for the networks with a gateway, and
\* the interfaces file has a gateway line only for those.
C8_GatewayLineOnlyWithGateway ==
    Manual =>
        /\ \A k \in DOMAIN last.modifiedNetworks :
              last.modifiedNetworks[k].HasDefaultGateway <=>
                  last.modifiedNetworks[k].Gateway # ""
        /\ last.err = Nil =>
              Len(SelectSeq(fs[InterfacesPath], IsGatewayLine)) =
                  Cardinality({k \in DOMAIN last.networks : last.networks[k].Gateway # ""})

\* the DNS list of the network that is the default for DNS, last server first
ReversedDNS ==
    IF DefaultNetworkFor(last.networks, "dns").found
    THEN [p \in 1..Len(DefaultNetworkFor(last.networks, "dns").network.DNS) |->
             DefaultNetworkFor(last.networks, "dns").network.DNS[
                 Len(DefaultNetworkFor(last.networks, "dns").network.DNS) + 1 - p]]
    ELSE <<>>

WroteResolvConf ==
    \E p \in DOMAIN last.trace : last.trace[p].op = "WriteFile" /\ last.trace[p].res

\* C9: resolv.conf as written by SetupManualNetworking holds one nameserver
\* line per server of the DNS default network, last server first, and none
\* when no network is the default; the prepend line of the dhclient config
\* lists the same servers in the same order, separated by ", ".
C9_DnsServersReversed ==
    /\ (Manual /\ WroteResolvConf) =>
          fs[ResolvConfPath] =
              << <<"# Generated by bosh-agent">> >> \o
              [p \in 1..Len(ReversedDNS) |-> <<"nameserver", ReversedDNS[p]>>]
    /\ (Dhcp /\ last.err = Nil) =>
          fs[last.trace[1].args[1]][5] =
              <<"prepend", "domain-name-servers">> \o
              [p \in 1..(2 * Len(ReversedDNS) - 1) |->
                  IF p % 2 = 1 THEN ReversedDNS[(p + 1) \div 2] ELSE ", "] \o <<";">>

\* resolv.conf was written from a default network with three servers
C9_Witness ==
    /\ Manual /\ WroteResolvConf
    /\ Len(ReversedDNS) = 3
    /\ Len(fs[ResolvConfPath]) = 4

\* stdout holds "ifup version 0.7"
Has07Signature(stdout) ==
    \E p \in 1..(Len(stdout) - 3) :
        /\ stdout[p] = "ifup version " /\ stdout[p + 1] = "0"
        /\ stdout[p + 2] = "." /\ stdout[p + 3] = "7"

\* C10: ifdown and ifup are run with "-a --no-loopback" when the stdout of
\* "ifup --version" holds the 0.7 signature and with "-a --exclude=lo"
\* otherwise, whether or not the probe failed.
C10_RestartArguments ==
    Dhcp =>
        \A p \in DOMAIN last.trace :
            (IsIfdown(last.trace[p]) \/ IsIfup(last.trace[p])) =>
                SubSeq(last.trace[p].args, 2, Len(last.trace[p].args)) =
                    IF Has07Signature(last.in.stdout)
                    THEN <<"-a", "--no-loopback">>
                    ELSE <<"-a", "--exclude=lo">>

\* the probe failed but printed the signature, and ifup ran with --no-loopback
C10_Witness ==
    /\ Dhcp /\ Has07Signature(last.in.stdout)
    /\ \E p \in DOMAIN last.trace : IsProbe(last.trace[p]) /\ ~last.trace[p].res
    /\ \E p \in DOMAIN last.trace :
          last.trace[p].args = <<"ifup", "-a", "--no-loopback">>

\* the flag lists the latest SetupDhcp call gave to ifdown and ifup
BounceFlags ==
    {SubSeq(last.trace[p].args, 2, Len(last.trace[p].args)) :
        p \in {q \in DOMAIN last.trace : IsIfdown(last.trace[q]) \/ IsIfup(last.trace[q])}}

\* C11 as stated: a SetupDhcp call that bounces the stack uses
\* "-a --exclude=lo" when the probe's output holds the 0.7 signature and
\* "-a --no-loopback" when it does not.
C11_FlagsAsStated ==
    (Dhcp /\ BounceFlags # {}) =>
        BounceFlags = IF Has07Signature(last.in.stdout)
                      THEN {<<"-a", "--exclude=lo">>}
                      ELSE {<<"-a", "--no-loopback">>}

\* C11 amended: a SetupDhcp call that bounces the stack uses the name-based
\* exclusion "--exclude=lo" exactly when the probe's output does not hold the
\* 0.7 signature, and "--no-loopback" exactly when it does.
C11_FlagsByProbe ==
    (Dhcp /\ BounceFlags # {}) =>
        /\ (<<"-a", "--exclude=lo">> \in BounceFlags) <=> ~Has07Signature(last.in.stdout)
        /\ (<<"-a", "--no-loopback">> \in BounceFlags) <=> Has07Signature(last.in.stdout)

\* the probe printed a 0.8 version and the stack was bounced with --exclude=lo
C11_Witness ==
    /\ Dhcp /\ last.in.stdout = <<"ifup version ", "0", ".", "8">>
    /\ BounceFlags = {<<"-a", "--exclude=lo">>}

\* the latest call got as far as the write of resolv.conf: the interfaces
\* step did not fail and the resolv.conf template rendered
ReachesResolvConf ==
    /\ ~DetectFault
    /\ ~last.in.convergeErr
    /\ last.in.renderErr = {}

IsResolvConfWrite(e) == e.op = "WriteFile" /\ e.args = <<ResolvConfPath>>
IsResolvConfConverge(e) == e.op = "ConvergeFileContents" /\ e.args = <<ResolvConfPath>>

PassesAllSteps(c) ==
    /\ ~c.in.globErr /\ ~c.in.convergeErr /\ ~c.in.writeErr /\ c.in.renderErr = {}
    /\ \A i \in c.in.readErr : c.devs[i] = NoDev
    /\ \A k \in DOMAIN c.networks :
          c.networks[k].IP \in DOMAIN AddrTable /\ c.networks[k].Netmask \in DOMAIN AddrTable

\* C13: the step in which a SetupManualNetworking call passes the interfaces
\* and resolv.conf steps ends with the call returning nil and its goroutine
\* standing at its start: no poll has succeeded, no arping was issued and
\* nothing was sent on the channel; the return waits for no goroutine step.
C13_ReturnsBeforeAnnouncerActs ==
    [][ (last.op = "none" /\ last'.op = "SetupManualNetworking" /\ PassesAllSteps(last'))
          => /\ last'.err = Nil
             /\ last'.launched
             /\ Len(arps') = Len(arps) + 1
             /\ SubSeq(arps', 1, Len(arps)) = arps
             /\ arps'[Len(arps')].trace = <<>>
             /\ arps'[Len(arps')].i = 0
             /\ arps'[Len(arps')].call = ncalls'
             /\ arps'[Len(arps')].networks # <<>> => arps'[Len(arps')].pc = "poll" ]_vars

\* the call has returned nil, is not yet taken by the caller, nobody receives
\* on its channel, and its goroutine has issued nothing and polls for a device
\* that is gone
C13_Witness ==
    /\ Manual /\ last.err = Nil /\ last.errCh # NoChan
    /\ ~receiver
    /\ \E k \in DOMAIN arps :
          /\ arps[k].call = ncalls
          /\ arps[k].trace = <<>>
          /\ arps[k].pc = "poll"
          /\ ~FileExists(devices, PathJoin(<<"/sys/class/net">>,
                                           arps[k].networks[arps[k].j].Interface))

\* the dhclient config of a call under the environment in
DhclientConfOf(in) == IF in.dhclient3 THEN "/etc/dhcp3/dhclient.conf"
                                      ELSE "/etc/dhcp/dhclient.conf"

\* C14: a SetupDhcp call touches one file only, through ConvergeFileContents:
\* /etc/dhcp3/dhclient.conf when dhclient3 exists, /etc/dhcp/dhclient.conf
\* otherwise; every other file is left as it was, no WriteFile and no service
\* command is run, and no goroutine is started.
C14_DhcpTouchesOnlyDhclientConf ==
    [][ (last.op = "none" /\ last'.op = "SetupDhcp") =>
          /\ \A p \in Paths : p # DhclientConfOf(last'.in) => fs'[p] = fs[p]
          /\ \A q \in DOMAIN last'.trace :
                /\ last'.trace[q].op \in {"ConvergeFileContents", "RunCommand"}
                /\ ~IsService(last'.trace[q])
                /\ last'.trace[q].op = "ConvergeFileContents" =>
                      (q = 1 /\ last'.trace[q].args = <<DhclientConfOf(last'.in)>>)
          /\ last'.in.renderErr = {} => last'.trace # <<>>
          /\ (last'.trace # <<>> /\ last'.trace[1].res) =>
                fs'[DhclientConfOf(last'.in)] # fs[DhclientConfOf(last'.in)]
          /\ arps' = arps
          /\ ~last'.launched ]_vars

\* SetupDhcp wrote /etc/dhcp3/dhclient.conf after a SetupManualNetworking call
\* had written the interfaces file and resolv.conf and started a goroutine
C14_Witness ==
    /\ Dhcp /\ last.in.dhclient3 /\ last.trace # <<>> /\ last.trace[1].res
    /\ fs[Dhcp3Path] # NoFile /\ fs[DhcpPath] = NoFile
    /\ fs[InterfacesPath] # NoFile /\ fs[ResolvConfPath] # NoFile
    /\ arps # <<>>

\* the /sys/class/net entry the goroutine a polls for in its current visit
PolledEntry(a) == PathJoin(<<"/sys/class/net">>, a.networks[a.j].Interface)

\* C15: a goroutine issues an arping only from the position a successful poll
\* of the same visit (same round, same network) left it in, and the arping is
\* that network's; a poll succeeds only when the polled /sys/class/net entry
\* exists, and while it does not exist the goroutine stays where it is: no
\* arping of this or any later network or round, and no notification.
C15_ArpingOnlyAfterPollSawDevice ==
    [][ \A k \in DOMAIN arps :
          /\ arps'[k].trace # arps[k].trace =>
                \/ /\ arps[k].pc = "arping"
                   /\ arps'[k].trace = Append(arps[k].trace,
                                              ArpingOf(arps[k].networks[arps[k].j]))
                \/ arps[k].pc = "send"
          /\ (arps'[k].pc = "arping" /\ arps[k].pc # "arping") =>
                /\ arps[k].pc = "poll"
                /\ FileExists(devices, PolledEntry(arps[k]))
                /\ arps'[k].i = arps[k].i /\ arps'[k].j = arps[k].j
          /\ (arps[k].pc = "poll" /\ ~FileExists(devices, PolledEntry(arps[k]))) =>
                arps'[k] = arps[k] ]_vars

\* a goroutine that has finished its first round waits in the poll of the
\* second network, whose device is gone
C15_Witness ==
    \E k \in DOMAIN arps :
        /\ arps[k].pc = "poll" /\ arps[k].i >= 1 /\ arps[k].j = 2
        /\ ~FileExists(devices, PolledEntry(arps[k]))
        /\ FileExists(devices, PathJoin(<<"/sys/class/net">>, arps[k].networks[1].Interface))

\* the k-th goroutine runs and the device of each of its networks is there
DevicesPresent(k) ==
    /\ k \in DOMAIN arps
    /\ \A p \in DOMAIN arps[k].networks :
          FileExists(devices, PathJoin(<<"/sys/class/net">>, arps[k].networks[p].Interface))

\* the k-th goroutine waits in the poll for the device of its p-th network
PollingFor(k, p) == k \in DOMAIN arps /\ arps[k].pc = "poll" /\ arps[k].j = p
AbsentFor(k, p) ==
    /\ k \in DOMAIN arps /\ p \in DOMAIN arps[k].networks
    /\ ~FileExists(devices, PathJoin(<<"/sys/class/net">>, arps[k].networks[p].Interface))

AtSend(k) == k \in DOMAIN arps /\ arps[k].pc = "send"
Done(k) == k \in DOMAIN arps /\ arps[k].pc = "done"
Undelivered(k) ==
    k \in DOMAIN arps /\ \A q \in DOMAIN arps[k].trace : arps[k].trace[q].op # "send"

\* C16: under fair scheduling of the goroutine's steps, a goroutine whose
\* devices are all there from some time on, and whose send (when it has a
\* channel) finds a receiver from some time on, is eventually done; a goroutine
\* that polls for a device that stays away from then on stays in that poll for
\* ever and never notifies; a goroutine whose send finds no receiver from then
\* on stays at the send, all its arpings issued, for ever.
C16_AnnouncerTermination ==
    \A k \in 1..MaxArpCalls :
        /\ (<>[]DevicesPresent(k) /\ <>[](AtSend(k) => receiver)) => <>Done(k)
        /\ \A p \in 1..MaxNets :
              []((PollingFor(k, p) /\ []AbsentFor(k, p))
                    => [](PollingFor(k, p) /\ Undelivered(k)))
        /\ []((AtSend(k) /\ []~receiver)
                 => [](AtSend(k) /\ Undelivered(k)
                       /\ Len(arps[k].trace) = Rounds * Len(arps[k].networks)))

\* a goroutine of two networks, given a channel and first held up at the
\* send, has notified the caller
C16_Witness ==
    \E k \in DOMAIN arps :
        /\ arps[k].pc = "done" /\ arps[k].errCh # NoChan
        /\ Len(arps[k].networks) = 2
        /\ ~receiver
        /\ arps[k].trace[Len(arps[k].trace)].op = "send"
        /\ devChanged

\* the service command of the q-th step of a bounce of the networks nets:
\* stop then start for each network in turn
BounceCommand(nets, q) ==
    <<"service", "network-interface", IF q % 2 = 1 THEN "stop" ELSE "start",
      "INTERFACE=", nets[(q + 1) \div 2].Interface>>

InterfacesFileChanged ==
    /\ last.trace # <<>>
    /\ last.trace[1] = Event("ConvergeFileContents", <<InterfacesPath>>, TRUE)

\* C17: a SetupManualNetworking call whose convergent write changed the
\* interfaces file runs, for each of its networks in the order given, the
\* service stop and then the service start of that network's interface,
\* whichever of these commands fail; the call then still writes resolv.conf,
\* and unless that write fails it returns nil and starts the goroutine.
C17_BounceVisitsEveryInterface ==
    (Manual /\ InterfacesFileChanged) =>
        /\ Len(last.modifiedNetworks) = Len(last.networks)
        /\ \A p \in DOMAIN last.networks :
              last.modifiedNetworks[p].IP = last.networks[p].IP
        /\ Events(last.trace, IsService) =
              [q \in 1..(2 * Len(last.networks)) |->
                  Event("RunCommand", BounceCommand(last.modifiedNetworks, q),
                        BounceCommand(last.modifiedNetworks, q) \notin last.in.cmdErr)]
        /\ last.in.renderErr = {} =>
              /\ Len(Events(last.trace, IsResolvConfWrite)) = 1
              /\ ~last.in.writeErr => (last.err = Nil /\ last.launched)

\* every stop and start of a bounce of two interfaces failed; the call wrote
\* resolv.conf, returned nil and started its goroutine
C17_Witness ==
    /\ Manual /\ InterfacesFileChanged
    /\ Len(last.networks) = 2
    /\ Len(Events(last.trace, IsService)) = 4
    /\ \A q \in DOMAIN last.trace : IsService(last.trace[q]) => ~last.trace[q].res
    /\ last.err = Nil /\ last.launched

\* the commands of the latest call, in the order they were run
Commands == Events(last.trace, IsCommand)
FlagsOf(e) == SubSeq(e.args, 2, Len(e.args))

\* C18: a SetupDhcp call whose convergent write changed the dhclient config
\* runs three commands in this order: "ifup --version" once, then ifdown, then
\* ifup; ifdown and ifup get the same flag list, and each is run whether or
\* not the commands before it failed.
C18_ProbeThenDownThenUp ==
    (Dhcp /\ last.trace # <<>> /\ last.trace[1].res) =>
        /\ Len(Commands) = 3
        /\ Commands[1].args = <<"ifup", "--version">>
        /\ Commands[2].args[1] = "ifdown"
        /\ Commands[3].args[1] = "ifup"
        /\ FlagsOf(Commands[2]) = FlagsOf(Commands[3])
        /\ Len(FlagsOf(Commands[2])) = 2
        /\ \A q \in 1..3 : Commands[q].res <=> Commands[q].args \notin last.in.cmdErr
        /\ SubSeq(last.trace, 2, Len(last.trace)) = Commands

\* ifdown failed and ifup was run after it with the same flags
C18_Witness ==
    /\ Dhcp /\ Len(Commands) = 3
    /\ Commands[1].res /\ ~Commands[2].res /\ Commands[3].res
    /\ Commands[3].args = <<"ifup", "-a", "--no-loopback">>

\* C19: a SetupManualNetworking call in which the write of /etc/resolv.conf
\* fails returns the error "Writing resolv.conf", the failed write being its
\* last operation: it starts no goroutine, so that nothing is ever sent on the
\* caller's channel for it, before or after the caller takes the error.
C19_ResolvConfFailureLaunchesNothing ==
    /\ (Manual /\ ReachesResolvConf /\ last.in.writeErr) =>
          /\ last.err # Nil
          /\ last.err[1] = "Writing resolv.conf"
          /\ ~last.launched
          /\ last.trace # <<>>
          /\ last.trace[Len(last.trace)] = Event("WriteFile", <<ResolvConfPath>>, FALSE)
          /\ Events(last.trace, IsLaunch) = <<>>
          /\ \A k \in DOMAIN arps : arps[k].call # ncalls
    /\ (last.op = "none" /\ prev.op = "SetupManualNetworking" /\ ~prev.ok) =>
          \A k \in DOMAIN arps : arps[k].call # ncalls

\* the write of resolv.conf failed after the interfaces file had been
\* rewritten and two interfaces bounced
C19_Witness ==
    /\ Manual /\ last.in.writeErr /\ last.err # Nil /\ last.errCh # NoChan
    /\ InterfacesFileChanged
    /\ fs[InterfacesPath] # NoFile
    /\ Len(Events(last.trace, IsService)) = 4
    /\ arps = <<>>

\* the goroutine a has done part of its run and not all of it
MidRun(a) == 0 < Len(a.trace) /\ Len(a.trace) < Len(WholeRun(a)) /\ a.pc # "done"

\* C20: a goroutine once started is never removed, replaced or handed other
\* networks: a later SetupManualNetworking call leaves every running
\* goroutine's list, channel and position as they are and adds its own; a step
\* of one goroutine changes no other; and each goroutine's operations are a
\* prefix of its own 6*N arpings followed by its own single notification, all
\* of them once it is done.
C20_AnnouncersRunIndependently ==
    /\ [][ /\ Len(arps') >= Len(arps)
           /\ \A k \in DOMAIN arps :
                 /\ arps'[k].networks = arps[k].networks
                 /\ arps'[k].errCh = arps[k].errCh
                 /\ arps'[k].call = arps[k].call
                 /\ ncalls' # ncalls => arps'[k] = arps[k]
                 /\ arps'[k] # arps[k] =>
                       \A o \in DOMAIN arps : o # k => arps'[o] = arps[o]
           /\ (ncalls' # ncalls /\ last'.launched) =>
                 /\ Len(arps') = Len(arps) + 1
                 /\ arps'[Len(arps')].networks = last'.modifiedNetworks
                 /\ arps'[Len(arps')].trace = <<>> ]_vars
    /\ [](\A k \in DOMAIN arps :
             /\ Len(arps[k].trace) <= Len(WholeRun(arps[k]))
             /\ arps[k].trace = SubSeq(WholeRun(arps[k]), 1, Len(arps[k].trace))
             /\ arps[k].pc = "done" => arps[k].trace = WholeRun(arps[k]))

\* two goroutines started by two calls on different lists are both in the
\* middle of their runs
C20_Witness ==
    /\ Len(arps) = 2
    /\ arps[1].networks # arps[2].networks
    /\ Len(arps[1].networks) = 1 /\ Len(arps[2].networks) = 2
    /\ MidRun(arps[1]) /\ MidRun(arps[2])
    /\ arps[1].call = 1 /\ arps[2].call = 2

====
